---------------------------- MODULE Spec2Model ----------------------------
(***************************************************************************)
(* WrappingHashSet (src/src/lib.rs): a hash set paired with a vector of    *)
(* its keys and a position that persists across iterators.  Iter borrows   *)
(* the set mutably and carries its own count of the calls of the pass.     *)
(***************************************************************************)
EXTENDS Naturals, Integers, Sequences, FiniteSets

\* The keys that may be inserted are 1..MaxKey.
MaxKey == 3

KeySet == 1..MaxKey

VARIABLES
    hashset,    \* WrappingHashSet.hashset: the set of keys held
    keys,       \* WrappingHashSet.keys: Vec of the keys, 1-based here
    pos,        \* WrappingHashSet.pos
    live,       \* an Iter borrowing the set exists
    count,      \* Iter.count of the live Iter
    panic,      \* an index out of bounds was read (keys[pos - 1])
    last,       \* the last call: its name, argument and result
    out,        \* the values the live Iter returned since it last returned None
    start,      \* pos when the live Iter was created
    fresh,      \* the live Iter has not been called again after a None
    stale,      \* a remove succeeded since the last call of Iter::next
    prevOut,    \* what the previous Iter returned, if it was dropped in its first pass
    prevEnd,    \* how the previous Iter ended: "abandoned", "exhausted" or "none"
    prevCount,  \* count of the previous Iter when it was dropped
    inserted,   \* the keys whose insert returned true, in call order, while no remove succeeded
    everRemoved, \* some remove has returned true
    seen,       \* per key x returned before: the keys returned since x was last returned
    held,       \* per key x returned before: the keys held when x was last returned
    gap         \* seen and held of the key returned last, as they were before that return

vars == <<hashset, keys, pos, live, count, panic, last, out, start, fresh,
          stale, prevOut, prevEnd, prevCount, inserted, everRemoved,
          seen, held, gap>>

whs == <<hashset, keys, pos>>

None == << >>

Some(v) == <<v>>

NoSeen == [x \in KeySet |-> << >>]

NoHeld == [x \in KeySet |-> {}]

NoGap == [key |-> 0, seen |-> << >>, held |-> {}]

Call(name, key, ok, item) == [op |-> name, key |-> key, ok |-> ok, item |-> item]

Range(s) == {s[i] : i \in 1..Len(s)}

NoDup(s) == \A i, j \in 1..Len(s) : i # j => s[i] # s[j]

\* Every order in which HashSet::iter may enumerate the set hs.
Orders(hs) ==
    {f \in [1..Cardinality(hs) -> hs] : \A i, j \in 1..Cardinality(hs) : i # j => f[i] # f[j]}

\* HashSet::insert: true when the key was not present.
HashSetInsert(hs, key) == key \notin hs

\* HashSet::remove: true when the key was present.
HashSetRemove(hs, key) == key \in hs

\* insert: the keys vector after the call.
InsertKeysDup(ks, key, added) == Append(ks, key)

InsertKeysFront(ks, key, added) == IF added THEN <<key>> \o ks ELSE ks

InsertKeys(ks, key, added) == IF added THEN Append(ks, key) ELSE ks

\* remove: the keys vectors the call may leave, hs being the set after it.
RemoveKeysKept(ks, hs, removed) == {ks}

RemoveKeys(ks, hs, removed) == IF removed THEN Orders(hs) ELSE {ks}

\* Iter::next, "Wrap": the position after the wrap test.
WrapPosLate(p, n) == IF p > n THEN 0 ELSE p

WrapPosEq(p, n) == IF p = n THEN 0 ELSE p

WrapPosNonEmpty(p, n) == IF n > 0 /\ p >= n THEN 0 ELSE p

WrapPos(p, n) == IF p >= n THEN 0 ELSE p

\* Iter::next: the pass is over once count exceeds the number of keys held.
ExhaustedShort(c, n) == c >= n

Exhausted(c, n) == c > n

\* Iter::next: pos moves on by one before the key at pos - 1 is read.
AdvanceSkip(p) == p + 2

Advance(p) == p + 1

\* Iter::next: the count the Iter keeps when it returns None, c being the
\* count after its increment.
CountAfterNoneKept(c) == c

CountAfterNone(c) == 0

\* iter: the count a new Iter starts with.
NewCountShared == prevCount

NewCount == 0

\* new
Init ==
    /\ hashset = {}
    /\ keys = << >>
    /\ pos = 0
    /\ live = FALSE
    /\ count = 0
    /\ panic = FALSE
    /\ last = Call("new", 0, FALSE, None)
    /\ out = << >>
    /\ start = 0
    /\ fresh = FALSE
    /\ stale = FALSE
    /\ prevOut = << >>
    /\ prevEnd = "none"
    /\ prevCount = 0
    /\ inserted = << >>
    /\ everRemoved = FALSE
    /\ seen = NoSeen
    /\ held = NoHeld
    /\ gap = NoGap

insert(key) ==
    /\ ~live /\ ~panic
    /\ LET added == HashSetInsert(hashset, key) IN
        /\ hashset' = hashset \cup {key}
        /\ keys' = InsertKeys(keys, key, added)
        /\ last' = Call("insert", key, added, None)
        /\ IF added
           THEN prevOut' = << >> /\ prevEnd' = "none"
           ELSE UNCHANGED <<prevOut, prevEnd>>
        /\ inserted' = IF added /\ ~everRemoved THEN Append(inserted, key) ELSE inserted
    /\ UNCHANGED <<pos, live, count, panic, out, start, fresh, stale, prevCount, everRemoved,
                   seen, held, gap>>

removeClamp(key) ==
    /\ ~live /\ ~panic
    /\ LET removed == HashSetRemove(hashset, key) IN
        /\ hashset' = hashset \ {key}
        /\ keys' \in RemoveKeys(keys, hashset', removed)
        /\ last' = Call("remove", key, removed, None)
        /\ stale' = (stale \/ removed)
        /\ IF removed
           THEN prevOut' = << >> /\ prevEnd' = "none"
           ELSE UNCHANGED <<prevOut, prevEnd>>
        /\ everRemoved' = (everRemoved \/ removed)
        /\ inserted' = IF removed THEN << >> ELSE inserted
        /\ IF removed
           THEN seen' = NoSeen /\ held' = NoHeld /\ gap' = NoGap
           ELSE UNCHANGED <<seen, held, gap>>
    /\ pos' = (IF pos > Len(keys') THEN Len(keys') ELSE pos)
    /\ UNCHANGED <<live, count, panic, out, start, fresh, prevCount>>

remove(key) ==
    /\ ~live /\ ~panic
    /\ LET removed == HashSetRemove(hashset, key) IN
        /\ hashset' = hashset \ {key}
        /\ keys' \in RemoveKeys(keys, hashset', removed)
        /\ last' = Call("remove", key, removed, None)
        /\ stale' = (stale \/ removed)
        /\ IF removed
           THEN prevOut' = << >> /\ prevEnd' = "none"
           ELSE UNCHANGED <<prevOut, prevEnd>>
        /\ everRemoved' = (everRemoved \/ removed)
        /\ inserted' = IF removed THEN << >> ELSE inserted
        /\ IF removed
           THEN seen' = NoSeen /\ held' = NoHeld /\ gap' = NoGap
           ELSE UNCHANGED <<seen, held, gap>>
    /\ UNCHANGED <<pos, live, count, panic, out, start, fresh, prevCount>>

iterRestart ==
    /\ ~live /\ ~panic
    /\ live' = TRUE
    /\ count' = NewCount
    /\ pos' = 0
    /\ last' = Call("iter", 0, FALSE, None)
    /\ out' = << >>
    /\ start' = pos
    /\ fresh' = TRUE
    /\ UNCHANGED <<hashset, keys, panic, stale, prevOut, prevEnd, prevCount, inserted, everRemoved,
                   seen, held, gap>>

iter ==
    /\ ~live /\ ~panic
    /\ live' = TRUE
    /\ count' = NewCount
    /\ last' = Call("iter", 0, FALSE, None)
    /\ out' = << >>
    /\ start' = pos
    /\ fresh' = TRUE
    /\ UNCHANGED <<hashset, keys, pos, panic, stale, prevOut, prevEnd, prevCount, inserted, everRemoved,
                   seen, held, gap>>

next ==
    /\ live /\ ~panic
    /\ LET n == Cardinality(hashset)
           p == WrapPos(pos, n)
           c == count + 1
           again == last.op = "next" /\ last.item = None
       IN  IF Exhausted(c, n)
           THEN /\ pos' = p
                /\ count' = CountAfterNone(c)
                /\ last' = Call("next", 0, FALSE, None)
                /\ out' = IF again THEN << >> ELSE out
                /\ fresh' = (fresh /\ ~again)
                /\ UNCHANGED <<panic, seen, held, gap>>
           ELSE /\ pos' = Advance(p)
                /\ count' = c
                \* keys[pos - 1] of the 0-based Vec is keys[pos] here
                /\ IF pos' \in 1..Len(keys)
                   THEN /\ last' = Call("next", 0, TRUE, Some(keys[pos']))
                        /\ out' = IF again THEN <<keys[pos']>> ELSE Append(out, keys[pos'])
                        /\ fresh' = (fresh /\ ~again)
                        /\ IF everRemoved
                           THEN UNCHANGED <<seen, held, gap>>
                           ELSE LET y == keys[pos'] IN
                                /\ gap' = IF held[y] # {}
                                          THEN [key |-> y, seen |-> seen[y], held |-> held[y]]
                                          ELSE NoGap
                                /\ seen' = [x \in KeySet |->
                                              IF x = y THEN << >>
                                              ELSE IF held[x] # {} THEN Append(seen[x], y)
                                              ELSE seen[x]]
                                /\ held' = [held EXCEPT ![y] = hashset]
                        /\ UNCHANGED panic
                   ELSE /\ panic' = TRUE
                        /\ UNCHANGED <<last, out, fresh, seen, held, gap>>
    /\ stale' = FALSE
    /\ UNCHANGED <<hashset, keys, live, start, prevOut, prevEnd, prevCount, inserted, everRemoved>>

\* The Iter goes out of scope and the borrow ends.
drop ==
    /\ live /\ ~panic
    /\ live' = FALSE
    /\ count' = 0
    /\ prevCount' = count
    /\ last' = Call("drop", 0, last.op = "iter", None)
    /\ IF last.op = "iter"
       THEN UNCHANGED <<prevOut, prevEnd>>
       ELSE IF fresh
            THEN /\ prevOut' = out
                 /\ prevEnd' = IF last.item = None THEN "exhausted" ELSE "abandoned"
            ELSE /\ prevOut' = << >>
                 /\ prevEnd' = "none"
    /\ out' = << >>
    /\ start' = 0
    /\ fresh' = FALSE
    /\ UNCHANGED <<hashset, keys, pos, panic, stale, inserted, everRemoved,
                   seen, held, gap>>

Next ==
    \/ \E key \in KeySet : insert(key)
    \/ \E key \in KeySet : remove(key)
    \/ iter
    \/ next
    \/ drop

Spec == Init /\ [][Next]_vars

\* The caller goes on calling: some call is always possible (insert or iter
\* with no Iter alive, next or drop with one), so no behaviour ends.
FairSpec == Init /\ [][Next]_vars /\ WF_vars(Next)

-----------------------------------------------------------------------------
(* Observations the properties below are stated with. *)

\* The number of keys held.
Size == Cardinality(hashset)

\* The live Iter is in the first pass of its life.
FirstPass == live /\ fresh

\* The last call was Iter::next and it returned None.
ReturnedNone == last.op = "next" /\ last.item = None

\* The last call was Iter::next and it returned a key.
ReturnedSome == last.op = "next" /\ last.item # None

\* The index of v in keys.
IndexOf(v) == CHOOSE i \in 1..Len(keys) : keys[i] = v

\* The index that follows index i cyclically, j steps on, among n.
After(i, j, n) == ((i + j - 1) % n) + 1

-----------------------------------------------------------------------------
(* C1: wrap law.  A fresh Iter called repeatedly returns exactly as many   *)
(* keys as the set holds and None on the call after them; the keys it      *)
(* returned are pairwise distinct and are exactly the keys held, whatever  *)
(* pos was when the Iter was created.  No call panics.                     *)
C1_WrapLaw ==
    /\ ~panic
    /\ FirstPass =>
        /\ Len(out) <= Size
        /\ NoDup(out)
        /\ Range(out) \subseteq hashset
        /\ ReturnedNone => Len(out) = Size /\ Range(out) = hashset
        /\ ReturnedSome => count = Len(out)

C1_Witness ==
    /\ FirstPass /\ ReturnedNone
    /\ Size = MaxKey
    /\ start \in 1..(Size - 1)
    /\ Len(out) = Size

(* C2 as stated: after an Iter that returned k keys (0 < k < n) and was    *)
(* dropped, the next fresh Iter returns the n-k keys that follow in keys   *)
(* without wrapping, and reaches index 0 only with return n-k+1.           *)
C2_ResumeWrapsAfterRest ==
    (FirstPass /\ prevEnd = "abandoned" /\ Len(prevOut) < Size) =>
        \A j \in 1..Len(out) :
            /\ j <= Size - Len(prevOut) => (start + j <= Size /\ out[j] = keys[start + j])
            /\ j = Size - Len(prevOut) + 1 => out[j] = keys[1]

(* C2 amended: resume law.  After an Iter that returned k keys             *)
(* (0 < k < n) and was dropped, with no insert or remove in between, the   *)
(* next fresh Iter first returns the n-k keys that follow the last         *)
(* returned key cyclically in keys (index n-1 is followed by index 0,      *)
(* wherever that falls), which are the keys the first Iter did not return, *)
(* and then repeats the keys of the first Iter in their order; the k       *)
(* returns of the first and the first n-k of the second hold each key      *)
(* once.                                                                   *)
C2_ResumeLaw ==
    /\ ~panic
    /\ (FirstPass /\ prevEnd = "abandoned" /\ Len(prevOut) < Size) =>
        LET k == Len(prevOut)
            rest == Size - k
            both == prevOut \o SubSeq(out, 1, rest)
        IN  /\ k > 0
            /\ \A j \in 1..Len(out) :
                /\ out[j] = keys[After(IndexOf(prevOut[k]), j, Size)]
                /\ j <= rest => out[j] \notin Range(prevOut)
                /\ j > rest => out[j] = prevOut[j - rest]
            /\ Len(out) >= rest => (NoDup(both) /\ Range(both) = hashset)
            /\ ReturnedNone => Len(out) = Size

C2_Witness ==
    /\ FirstPass /\ prevEnd = "abandoned"
    /\ Len(prevOut) \in 1..(Size - 2)
    /\ Len(out) = Size - Len(prevOut)
    /\ out[1] = keys[Size]

(* C3: the bound on the returns is the Iter's own.  A new Iter starts with *)
(* count 0 whatever count the dropped Iter had, its count is the number of *)
(* keys it returned itself, and called until None it returns as many keys  *)
(* as the set holds now.                                                   *)
C3_CountIsPerIter ==
    /\ (live /\ last.op = "iter") => count = 0
    /\ (FirstPass /\ ReturnedSome) => (count = Len(out) /\ count <= Size)
    /\ (FirstPass /\ ReturnedNone) => (count = 0 /\ Len(out) = Size)

C3_Witness ==
    /\ FirstPass /\ ReturnedNone
    /\ prevCount \in 1..(Size - 1)
    /\ Len(out) = Size

(* C4 as stated: 0 <= pos <= Len(keys) in every reachable state.           *)
C4_PosWithinKeys == pos >= 0 /\ pos <= Len(keys)

(* C4 amended: pos >= 0 always, and pos <= Len(keys) in every reachable    *)
(* state in which no remove has succeeded since the last call of           *)
(* Iter::next (or since new); a remove leaves pos as it was, so it may     *)
(* exceed Len(keys) until the next call of Iter::next wraps it.            *)
C4_PosWithinKeysUnlessRemoved ==
    /\ pos \in Nat
    /\ ~stale => pos <= Len(keys)
    /\ last.op = "next" => pos <= Len(keys)

C4_Witness == stale /\ pos > Len(keys) /\ Len(keys) > 0

(* C5: keys holds no key twice and holds exactly the keys of hashset, so   *)
(* Len(keys) is the size of hashset, after any inserts and removes,        *)
(* successful or not.                                                      *)
C5_KeysMatchHashSet ==
    /\ NoDup(keys)
    /\ Range(keys) = hashset
    /\ Len(keys) = Cardinality(hashset)

C5_Witness ==
    /\ last.op = "insert" /\ ~last.ok
    /\ stale
    /\ Len(keys) >= 2

(* C6: post-removal clamp.  An Iter created with pos at or beyond the      *)
(* number of keys held (removes shrank the set under pos, or pos sat at    *)
(* the end) does not panic: its first call sets pos to 0 before reading,   *)
(* so it returns keys[0] first and the following keys in order, pos being  *)
(* the number of keys returned, and called until None it returns each key  *)
(* left exactly once.                                                      *)
C6_PostRemovalClamp ==
    /\ ~panic
    /\ (FirstPass /\ start >= Size) =>
        /\ \A j \in 1..Len(out) : out[j] = keys[j]
        /\ ReturnedSome => pos = Len(out)
        /\ ReturnedNone => (pos = 0 /\ Len(out) = Size /\ Range(out) = hashset /\ NoDup(out))

C6_Witness ==
    /\ FirstPass /\ ReturnedSome
    /\ start > Size
    /\ Len(out) = 1 /\ out[1] = keys[1] /\ pos = 1

(* C7: insert idempotence.  insert of a key not held returns true and adds *)
(* it; insert of a key held returns false and leaves hashset, keys and pos *)
(* as they were; an Iter called until None returns every key held exactly  *)
(* once.                                                                   *)
C7_InsertIdempotent ==
    /\ [][\A v \in KeySet : (last'.op = "insert" /\ last'.key = v) =>
            /\ v \notin hashset =>
                (last'.ok /\ hashset' = hashset \cup {v} /\ keys' = Append(keys, v) /\ pos' = pos)
            /\ v \in hashset =>
                (~last'.ok /\ hashset' = hashset /\ keys' = keys /\ pos' = pos)]_vars
    /\ []((FirstPass /\ ReturnedNone) =>
            \A v \in hashset : Cardinality({j \in 1..Len(out) : out[j] = v}) = 1)

C7_Witness ==
    /\ last.op = "insert" /\ ~last.ok
    /\ last.key \in hashset
    /\ pos > 0

(* C8: remove contract.  remove returns true exactly when the key is held  *)
(* and then the key is held no more; no Iter returns a key that is not     *)
(* held, and an Iter called until None returns exactly the keys left;      *)
(* remove of a key not held returns false and leaves hashset, keys (and    *)
(* their order) and pos as they were.                                      *)
C8_RemoveContract ==
    /\ [][\A v \in KeySet : (last'.op = "remove" /\ last'.key = v) =>
            /\ last'.ok = (v \in hashset)
            /\ v \notin hashset'
            /\ v \notin Range(keys')
            /\ v \in hashset => (hashset' = hashset \ {v} /\ pos' = pos)
            /\ v \notin hashset => (hashset' = hashset /\ keys' = keys /\ pos' = pos)]_vars
    /\ [](live => Range(out) \subseteq hashset)
    /\ []((FirstPass /\ ReturnedNone) => (Range(out) = hashset /\ Len(out) = Size))

C8_Witness ==
    /\ FirstPass /\ ReturnedNone
    /\ start > Size
    /\ Size >= 2
    /\ Len(out) = Size

(* C9: empty set.  With no key held (a new set, or one emptied by removes  *)
(* with pos left anywhere) the first call of any Iter returns None, no key *)
(* has been returned, and pos is 0 after the call.                         *)
C9_EmptySet ==
    /\ ~panic
    /\ (live /\ hashset = {}) => out = << >>
    /\ (live /\ hashset = {} /\ last.op = "next") => (last.item = None /\ pos = 0 /\ count = 0)

C9_Witness ==
    /\ live /\ hashset = {}
    /\ ReturnedNone
    /\ start > 0

(* C10: creating an Iter, and dropping one that was never called, leave    *)
(* hashset, keys and pos as they were, so the next Iter starts at the      *)
(* same pos with count 0.                                                  *)
C10_UnusedIterChangesNothing ==
    /\ [][(last'.op = "iter" \/ (last'.op = "drop" /\ last.op = "iter")) =>
            (hashset' = hashset /\ keys' = keys /\ pos' = pos)]_vars
    /\ []((live /\ last.op = "iter") => (pos = start /\ count = 0 /\ out = << >>))

C10_Witness ==
    /\ last.op = "drop" /\ last.ok
    /\ pos \in 1..(Len(keys) - 1)

(* C11: a full pass brings pos back to where it began.  With no insert or  *)
(* remove in between, an Iter called until None followed by a fresh Iter   *)
(* called until None returns the same keys in the same order, whatever pos *)
(* the first began with.                                                   *)
C11_FullPassRepeats ==
    (FirstPass /\ prevEnd = "exhausted") =>
        /\ Len(prevOut) = Size
        /\ Len(out) <= Len(prevOut)
        /\ \A j \in 1..Len(out) : out[j] = prevOut[j]
        /\ ReturnedNone => out = prevOut

C11_Witness ==
    /\ FirstPass /\ prevEnd = "exhausted"
    /\ ReturnedNone
    /\ Size = MaxKey
    /\ out = prevOut
    /\ out[1] # keys[1]

(* C12: insertion order.  While no remove has ever succeeded, keys is the  *)
(* sequence of the keys whose insert returned true, in call order, so an   *)
(* Iter that begins at index 0 (pos 0, or pos at the end) returns the keys *)
(* in insertion order, also the keys inserted after an Iter was called on  *)
(* the empty set.                                                          *)
C12_InsertionOrder ==
    ~everRemoved =>
        /\ keys = inserted
        /\ (FirstPass /\ (start = 0 \/ start = Size)) =>
            \A j \in 1..Len(out) : out[j] = inserted[j]

C12_Witness ==
    /\ ~everRemoved
    /\ FirstPass /\ ReturnedNone
    /\ start = 0
    /\ Len(inserted) = MaxKey /\ inserted[1] = MaxKey
    /\ out = inserted

(* C13: no read out of range.  No call of Iter::next panics, and every     *)
(* call that returns a key read keys at pos - 1 with 1 <= pos <= Len(keys) *)
(* and pos <= the number of keys held, also the first call after any       *)
(* number of removes since pos was last written.                           *)
C13_NoOutOfRange ==
    /\ ~panic
    /\ ReturnedSome =>
        /\ pos \in 1..Len(keys)
        /\ pos <= Cardinality(hashset)
        /\ last.item = Some(keys[pos])

C13_Witness ==
    /\ ReturnedSome
    /\ FirstPass /\ Len(out) = 1
    /\ start > Size + 1
    /\ pos = 1

(* C14 as stated: a call of Iter::next that returns None after every key   *)
(* held was returned (at least one key held) leaves pos as it was.         *)
C14_NoneLeavesPos ==
    [][(live /\ hashset # {} /\ last'.op = "next" /\ last'.item = None) => pos' = pos]_vars

(* C14 amended: a call of Iter::next that returns None leaves pos as it    *)
(* was when pos is below the number of keys held, and sets it to 0 when    *)
(* pos is at (or beyond) that number: the wrap test runs before the count  *)
(* test.  Either way the next Iter reads the same index first.             *)
C14_NoneWrapsPosOnly ==
    [][(live /\ last'.op = "next" /\ last'.item = None) =>
        /\ pos' = (IF pos >= Size THEN 0 ELSE pos)
        /\ pos' < Size \/ Size = 0
        /\ count' = 0
        /\ hashset' = hashset /\ keys' = keys]_vars

C14_Witness ==
    /\ live /\ ReturnedNone
    /\ Size >= 2
    /\ Len(out) = Size
    /\ start = 0 /\ pos = 0

(* C15 as stated: with no key held, a call of Iter::next leaves pos as it  *)
(* was.                                                                    *)
C15_EmptyLeavesPos ==
    [][(live /\ hashset = {} /\ last'.op = "next") => pos' = pos]_vars

(* C15 amended: with no key held, every call of Iter::next returns None    *)
(* and leaves pos at 0: pos is as it was when it was 0, and is set to 0    *)
(* when removes had left it above 0.  hashset and keys stay empty.         *)
C15_EmptySetsPosZero ==
    [][(live /\ hashset = {} /\ ~panic') =>
        /\ last'.op = "next" => (last'.item = None /\ pos' = 0 /\ count' = 0)
        /\ pos = 0 => pos' = pos
        /\ hashset' = {} /\ keys' = << >>]_vars

C15_Witness ==
    /\ live /\ hashset = {}
    /\ ReturnedNone
    /\ start = MaxKey
    /\ pos = 0

(* C16: insert and remove leave pos as it was, whether they return true or *)
(* false, and so do iter and the drop of an Iter; only Iter::next writes   *)
(* pos, and a call that returns a key leaves pos one above the wrapped     *)
(* position (0 when pos was at or beyond the number of keys held).         *)
C16_OnlyNextWritesPos ==
    [][/\ last'.op \in {"insert", "remove", "iter", "drop"} => pos' = pos
       /\ pos' # pos => (live /\ live')
       /\ (live /\ last'.op = "next" /\ last'.item # None /\ ~panic') =>
            pos' = (IF pos >= Size THEN 0 ELSE pos) + 1]_vars

C16_Witness ==
    /\ last.op = "remove" /\ last.ok
    /\ pos = MaxKey
    /\ Len(keys) = 1

Yielded(x) == ReturnedSome /\ last.item = Some(x)

\* The last call was a remove that returned true.
RemovedNow == last.op = "remove" /\ last.ok

C19_RoundRobin ==
    ~everRemoved =>
        /\ \A x \in KeySet : held[x] # {} =>
            /\ NoDup(seen[x])
            /\ x \notin Range(seen[x])
            /\ Range(seen[x]) \subseteq hashset
        /\ gap.held # {} =>
            /\ NoDup(gap.seen)
            /\ gap.key \notin Range(gap.seen)
            /\ gap.held \ {gap.key} \subseteq Range(gap.seen)

C19_Witness ==
    /\ ~everRemoved
    /\ gap.held = KeySet \ {MaxKey}
    /\ Len(gap.seen) = MaxKey - 1
    /\ MaxKey \in Range(gap.seen)
    /\ prevEnd = "abandoned"

=============================================================================
